---- MODULE Spec2Model ----
(***************************************************************************)
(* The Api facade of src/api.py: the fields it holds, the temporal split,  *)
(* the feature/target extraction, prepareDataframe and initModels.         *)
(* The helpers of the utilities module are modelled from the               *)
(* specification (spec.md, sections 3, 4 and 7).                           *)
(***************************************************************************)
EXTENDS Integers, Sequences, FiniteSets, TLC

\* ---------------------------------------------------------------- bounds
MaxRows      == 2   \* rows of a loaded dataset
MaxTime      == 1   \* timestamps range over 0..MaxTime
MaxIntervals == 2   \* training intervals in one traintime list
MaxTargets   == 2   \* names in one targetColumns list
MaxModels    == 2   \* models in one modelList
MaxWindow    == 2   \* enrolWindow ranges over 0..MaxWindow
MaxCalls     == 3   \* calls made on one Api object in a run
MaxLongCalls == 5   \* calls made in a run that repeats calls, on narrower inputs
MaxModelCalls == 4 \* calls made in a run that goes on to train and predict

\* ------------------------------------------------------- values and inputs
None    == [none |-> TRUE]
Some(x) == [val |-> x]

Times     == 0..MaxTime
Intervals == Times \X Times

\* Column layouts of the loaded file (relevantColumns) and the names a
\* caller may pass as targets; "zz" names no column of any layout.
AllColumns    == << "v", "w", "u" >>
ColumnLayouts == { SubSeq(AllColumns, 1, 1), AllColumns }
ColumnNames   == { "v", "w", "zz" }

SeqsUpTo(S, n) == UNION { [1..k -> S] : k \in 0..n }

IsSorted(s)    == \A i \in 1..(Len(s) - 1) : s[i] <= s[i + 1]
IsInjective(s) == \A i, j \in 1..Len(s) : s[i] = s[j] => i = j

\* The cell of row p, column c of a loaded file: every cell is distinct, so
\* a row is recognised wherever a split or an extraction puts it.
CellValue(p, c) == 10 * p + c

Dataframe(idx, cols) ==
    [ index   |-> idx,
      columns |-> cols,
      data    |-> [p \in 1..Len(idx) |-> [c \in 1..Len(cols) |-> CellValue(p, c)]] ]

\* Datasets: non-empty, rows in timestamp order (spec.md section 3).
Datasets ==
    { Dataframe(idx, cols) :
        idx \in { s \in SeqsUpTo(Times, MaxRows) : Len(s) >= 1 /\ IsSorted(s) },
        cols \in ColumnLayouts }

TrainTimes   == { s \in SeqsUpTo(Intervals, MaxIntervals) : Len(s) >= 1 }
TargetLists  == { s \in SeqsUpTo(ColumnNames, MaxTargets) : IsInjective(s) }
Model(w)     == [enrolWindow |-> w]
ModelLists   == { s \in SeqsUpTo({ Model(w) : w \in 0..MaxWindow }, MaxModels) : Len(s) >= 1 }

Rows(d) == Len(d.index)

\* ------------------------------------------------------------------ state
VARIABLES
    file,    \* the dataframe utilities.initDataframe builds from the file on disk
    df, traintime, testtime, df_train, df_test, targetColumns, modelList,
    X_train, y_train, X_test, y_test, maxEnrolWindow, indexColumn,
    alias,   \* the fields whose object shares storage with the object of df
    last,    \* the last call made on the Api: its name and how it ended
    ret,     \* what the last call returned (None when it raised or returns nothing)
    calls    \* calls made so far

vars == << file, df, traintime, testtime, df_train, df_test, targetColumns, modelList,
           X_train, y_train, X_test, y_test, maxEnrolWindow, indexColumn,
           alias, last, ret, calls >>

splitVars   == << traintime, testtime, df_train, df_test >>
extractVars == << targetColumns, X_train, y_train, X_test, y_test >>
modelVars   == << modelList, maxEnrolWindow, indexColumn >>

Call(op, exc)           == [op |-> op, exc |-> exc]
CallWith(op, exc, args) == [op |-> op, exc |-> exc, args |-> args]

\* ------------------------------------------------- utilities (spec.md 4.1)
InInterval(t, iv) == iv[1] <= t /\ t <= iv[2]
Malformed(iv)     == iv[1] > iv[2]

RECURSIVE SelectPositions(_, _, _)
SelectPositions(idx, iv, p) ==
    IF p > Len(idx) THEN << >>
    ELSE (IF InInterval(idx[p], iv) THEN << p >> ELSE << >>)
         \o SelectPositions(idx, iv, p + 1)

RECURSIVE ConcatPositions(_, _, _)
ConcatPositions(idx, ivs, i) ==
    IF i > Len(ivs) THEN << >>
    ELSE SelectPositions(idx, ivs[i], 1) \o ConcatPositions(idx, ivs, i + 1)

TakeRows(d, ps) ==
    [ index   |-> [k \in 1..Len(ps) |-> d.index[ps[k]]],
      columns |-> d.columns,
      data    |-> [k \in 1..Len(ps) |-> d.data[ps[k]]] ]

utilities_getTestTrainSplit(d, tt, te) ==
    IF d = None
    THEN [exc |-> "AttributeError", train |-> None, test |-> None, views |-> {}]
    ELSE IF Malformed(te) \/ \E i \in 1..Len(tt) : Malformed(tt[i])
    THEN [exc |-> "ConfigurationError", train |-> None, test |-> None, views |-> {}]
    ELSE [ exc   |-> "ok",
           train |-> TakeRows(d, ConcatPositions(d.index, tt, 1)),
           test  |-> TakeRows(d, SelectPositions(d.index, te, 1)),
           views |-> {} ]

\* ------------------------------------------------- utilities (spec.md 4.2)
Range(s) == { s[i] : i \in 1..Len(s) }

ColIndex(cols, name) == CHOOSE j \in 1..Len(cols) : cols[j] = name

RECURSIVE FeaturePositions(_, _, _)
FeaturePositions(cols, tc, j) ==
    IF j > Len(cols) THEN << >>
    ELSE (IF cols[j] \in Range(tc) THEN << >> ELSE << j >>)
         \o FeaturePositions(cols, tc, j + 1)

TakeColumns(d, js) ==
    [ columns |-> [k \in 1..Len(js) |-> d.columns[js[k]]],
      data    |-> [p \in 1..Rows(d) |-> [k \in 1..Len(js) |-> d.data[p][js[k]]]] ]

TargetPositions(cols, tc) == [k \in 1..Len(tc) |-> ColIndex(cols, tc[k])]

utilities_getFeatureTargetSplit(dtrain, dtest, tc) ==
    LET failed(e) == [exc |-> e, X_train |-> None, y_train |-> None,
                      X_test |-> None, y_test |-> None]
    IN  IF dtrain = None \/ dtest = None THEN failed("AttributeError")
        ELSE IF \/ Len(tc) = 0
                \/ \E k \in 1..Len(tc) : tc[k] \notin Range(dtrain.columns)
                \/ \E j \in 1..Len(tc) : tc[j] \notin Range(dtest.columns)
        THEN failed("ConfigurationError")
        ELSE [ exc     |-> "ok",
               X_train |-> TakeColumns(dtrain, FeaturePositions(dtrain.columns, tc, 1)),
               y_train |-> TakeColumns(dtrain, TargetPositions(dtrain.columns, tc)),
               X_test  |-> TakeColumns(dtest, FeaturePositions(dtest.columns, tc, 1)),
               y_test  |-> TakeColumns(dtest, TargetPositions(dtest.columns, tc)) ]

\* ------------------------------------------------- utilities (spec.md 4.3)
RECURSIVE MaxOver(_, _)
MaxOver(ml, i) ==
    IF i > Len(ml) THEN 0
    ELSE LET rest == MaxOver(ml, i + 1)
         IN  IF ml[i].enrolWindow > rest THEN ml[i].enrolWindow ELSE rest

utilities_findMaxEnrolWindow(ml) == MaxOver(ml, 1)

\* ----------------------------------------------------------------- Api
Init ==
    /\ file \in Datasets
    /\ df = None /\ traintime = None /\ testtime = None
    /\ df_train = None /\ df_test = None /\ targetColumns = None
    /\ modelList = None
    /\ X_train = None /\ y_train = None /\ X_test = None /\ y_test = None
    /\ maxEnrolWindow = None /\ indexColumn = None
    /\ alias = {}
    /\ last = Call("__init__", "ok")
    /\ ret = None
    /\ calls = 0

\* Every call is counted; a run makes at most MaxCalls of them, and a run
\* that repeats calls on narrower inputs at most MaxLongCalls.
CanCall     == calls < MaxCalls
CanCallLong == calls < MaxLongCalls
CanCallModels == calls < MaxModelCalls
Counted     == CanCallLong /\ calls' = calls + 1

\* initDataframe stores and returns the dataframe utilities.initDataframe
\* builds: a new object each time, with the file's rows and relevant columns.
initDataframe ==
    /\ Counted
    /\ df' = file
    /\ alias' = {}
    /\ last' = Call("initDataframe", "ok")
    /\ ret' = file
    /\ UNCHANGED << file, splitVars, extractVars, modelVars >>

\* Lines 129-134 once utilities.getTestTrainSplit has answered r: the two
\* arguments are stored first, the two subsets only when nothing was raised.
storeTestTrainSplit(tt, te, r) ==
    /\ Counted
    /\ traintime' = Some(tt)
    /\ testtime' = Some(te)
    /\ IF r.exc = "ok"
       THEN /\ df_train' = r.train
            /\ df_test' = r.test
            /\ alias' = (alias \ {"df_train", "df_test"}) \cup r.views
            /\ ret' = << r.train, r.test >>
       ELSE /\ UNCHANGED << df_train, df_test, alias >>
            /\ ret' = None
    /\ last' = Call("getTestTrainSplit", r.exc)
    /\ UNCHANGED << file, df, extractVars, modelVars >>

\* Faults of lines 131-133, used to show which claims the wrapper decides.
\* The two results unpacked in the wrong order.
getTestTrainSplit_swapped(tt, te) ==
    LET r == utilities_getTestTrainSplit(df, tt, te)
    IN  storeTestTrainSplit(tt, te, [r EXCEPT !.train = r.test, !.test = r.train])

\* Only the first training interval handed to the helper.
getTestTrainSplit_firstOnly(tt, te) ==
    storeTestTrainSplit(tt, te, utilities_getTestTrainSplit(df, << tt[1] >>, te))

\* The error of the helper caught and dropped.
getTestTrainSplit_swallow(tt, te) ==
    LET r == utilities_getTestTrainSplit(df, tt, te)
    IN  storeTestTrainSplit(tt, te, [r EXCEPT !.exc = "ok"])

\* The parent dataframe itself kept as the training subset.
getTestTrainSplit_alias(tt, te) ==
    LET r == utilities_getTestTrainSplit(df, tt, te)
    IN  storeTestTrainSplit(tt, te,
            IF r.exc = "ok" THEN [r EXCEPT !.train = df, !.views = {"df_train"}] ELSE r)

\* The subsets of an earlier split kept when there are some already.
getTestTrainSplit_keepFirst(tt, te) ==
    LET r == utilities_getTestTrainSplit(df, tt, te)
    IN  storeTestTrainSplit(tt, te,
            IF r.exc = "ok" /\ df_train # None
            THEN [r EXCEPT !.train = df_train, !.test = df_test]
            ELSE r)

\* The arrays of the earlier extraction dropped by a new split.
getTestTrainSplit_clears(tt, te) ==
    LET r == utilities_getTestTrainSplit(df, tt, te)
    IN  /\ Counted
        /\ traintime' = Some(tt)
        /\ testtime' = Some(te)
        /\ IF r.exc = "ok"
           THEN /\ df_train' = r.train
                /\ df_test' = r.test
                /\ X_train' = None /\ y_train' = None
                /\ X_test' = None /\ y_test' = None
                /\ alias' = {}
                /\ ret' = << r.train, r.test >>
           ELSE /\ UNCHANGED << df_train, df_test, alias, X_train, y_train, X_test, y_test >>
                /\ ret' = None
        /\ last' = Call("getTestTrainSplit", r.exc)
        /\ UNCHANGED << file, df, targetColumns, modelVars >>

\* The intervals stored only once the helper has returned.
getTestTrainSplit_argsAfter(tt, te) ==
    LET r == utilities_getTestTrainSplit(df, tt, te)
    IN  /\ Counted
        /\ IF r.exc = "ok"
           THEN /\ traintime' = Some(tt)
                /\ testtime' = Some(te)
                /\ df_train' = r.train
                /\ df_test' = r.test
                /\ alias' = (alias \ {"df_train", "df_test"}) \cup r.views
                /\ ret' = << r.train, r.test >>
           ELSE /\ UNCHANGED << traintime, testtime, df_train, df_test, alias >>
                /\ ret' = None
        /\ last' = Call("getTestTrainSplit", r.exc)
        /\ UNCHANGED << file, df, extractVars, modelVars >>

getTestTrainSplit(tt, te) ==
    storeTestTrainSplit(tt, te, utilities_getTestTrainSplit(df, tt, te))

\* Lines 150-156 once utilities.getFeatureTargetSplit has answered r.
storeFeatureTargetSplit(tc, r) ==
    /\ Counted
    /\ targetColumns' = Some(tc)
    /\ IF r.exc = "ok"
       THEN /\ X_train' = r.X_train
            /\ y_train' = r.y_train
            /\ X_test' = r.X_test
            /\ y_test' = r.y_test
            /\ alias' = alias \ {"X_train", "y_train", "X_test", "y_test"}
            /\ ret' = << r.X_train, r.y_train, r.X_test, r.y_test >>
       ELSE /\ UNCHANGED << X_train, y_train, X_test, y_test, alias >>
            /\ ret' = None
    /\ last' = Call("getFeatureTargetSplit", r.exc)
    /\ UNCHANGED << file, df, splitVars, modelVars >>

\* Faults of lines 151-155.
\* Features and targets of the training side unpacked in the wrong order.
getFeatureTargetSplit_swappedXy(tc) ==
    LET r == utilities_getFeatureTargetSplit(df_train, df_test, tc)
    IN  storeFeatureTargetSplit(tc, [r EXCEPT !.X_train = r.y_train, !.y_train = r.X_train])

\* The test side's features stored as the training side's.
getFeatureTargetSplit_swappedSides(tc) ==
    LET r == utilities_getFeatureTargetSplit(df_train, df_test, tc)
    IN  storeFeatureTargetSplit(tc, [r EXCEPT !.X_train = r.X_test])

\* The error of the helper caught and dropped.
getFeatureTargetSplit_swallow(tc) ==
    LET r == utilities_getFeatureTargetSplit(df_train, df_test, tc)
    IN  storeFeatureTargetSplit(tc, [r EXCEPT !.exc = "ok"])

getFeatureTargetSplit(tc) ==
    storeFeatureTargetSplit(tc, utilities_getFeatureTargetSplit(df_train, df_test, tc))

\* prepareDataframe names getTestTrainSplit and getFeatureTargetSplit bare:
\* the module binds neither name, so the first line raises NameError.
prepareDataframe(d, tt, te, tc) ==
    /\ Counted
    /\ last' = CallWith("prepareDataframe", "NameError", << d, tt, te, tc >>)
    /\ ret' = None
    /\ UNCHANGED << file, df, splitVars, extractVars, modelVars, alias >>

\* iloc[n:] of an index: the entries from offset n on, none when n >= length.
ILocFrom(idx, n) == SubSeq(idx, n + 1, Len(idx))

\* The model list stored before the index is sliced.
initModels_listFirst(ml) ==
    LET w == utilities_findMaxEnrolWindow(ml)
    IN  /\ Counted
        /\ maxEnrolWindow' = Some(w)
        /\ modelList' = Some(ml)
        /\ IF df_test = None
           THEN /\ UNCHANGED indexColumn
                /\ last' = Call("initModels", "AttributeError")
           ELSE /\ indexColumn' = Some(ILocFrom(df_test.index, w))
                /\ last' = Call("initModels", "ok")
        /\ ret' = None
        /\ UNCHANGED << file, df, splitVars, extractVars, alias >>

initModels(ml) ==
    LET w == utilities_findMaxEnrolWindow(ml)
    IN  /\ Counted
        /\ maxEnrolWindow' = Some(w)
        /\ IF df_test = None
           THEN /\ UNCHANGED << indexColumn, modelList >>
                /\ last' = Call("initModels", "AttributeError")
           ELSE /\ indexColumn' = Some(ILocFrom(df_test.index, w))
                /\ modelList' = Some(ml)
                /\ last' = Call("initModels", "ok")
        /\ ret' = None
        /\ UNCHANGED << file, df, splitVars, extractVars, alias >>

\* What the training and prediction helpers do with their arguments is not
\* part of the program text at hand: each either returns or raises.
Outcomes == { "ok", "Error" }

\* trainModels hands modelList and targetColumns, as stored, to the helper
\* and assigns no field.
trainModels(retrain) ==
    /\ Counted
    /\ \E e \in Outcomes :
          last' = CallWith("trainModels", e, << modelList, targetColumns, retrain >>)
    /\ ret' = None
    /\ UNCHANGED << file, df, splitVars, extractVars, modelVars, alias >>

\* predictWithModels hands modelList, the four arrays and targetColumns to
\* the helper; with plot set and the helper returned, indexColumn and
\* traintime go to the plotting helper. It assigns no field and returns the
\* names and scores the helper gave.
predictWithModels(plot, interpol) ==
    /\ Counted
    /\ \E e \in Outcomes, ePlot \in Outcomes :
          LET plotted == IF plot /\ e = "ok"
                         THEN Some(<< indexColumn, traintime, interpol >>)
                         ELSE None
              exc     == IF e = "ok" /\ plot THEN ePlot ELSE e
          IN  /\ last' = CallWith("predictWithModels", exc,
                             << modelList, X_train, y_train, X_test, y_test,
                                targetColumns, plotted >>)
              /\ ret' = IF exc = "ok" THEN Some("scores") ELSE None
    /\ UNCHANGED << file, df, splitVars, extractVars, modelVars, alias >>

\* The caller writes one cell of an object it was handed (a subset or an
\* array) in place; every object sharing that storage changes with it.
Poison == 0 - 1

Poke(v, r, c) ==
    IF v # None /\ r \in 1..Len(v.data) /\ c \in 1..Len(v.columns)
    THEN [v EXCEPT !.data[r][c] = Poison]
    ELSE v

SubsetFields == { "df_train", "df_test", "X_train", "y_train", "X_test", "y_test" }

Poisoned(v) ==
    v # None /\ \E r \in 1..Len(v.data) : \E c \in 1..Len(v.columns) : v.data[r][c] = Poison

Field(f) ==
    CASE f = "df_train" -> df_train
      [] f = "df_test"  -> df_test
      [] f = "X_train"  -> X_train
      [] f = "y_train"  -> y_train
      [] f = "X_test"   -> X_test
      [] f = "y_test"   -> y_test

Mutate(f, r, c) ==
    LET touched(g) == g = f \/ (f \in alias /\ g \in alias)
        after(g)   == IF touched(g) THEN Poke(Field(g), r, c) ELSE Field(g)
    IN  /\ Field(f) # None
        /\ r \in 1..Len(Field(f).data)
        /\ c \in 1..Len(Field(f).columns)
        /\ ~ Poisoned(df) /\ \A g \in SubsetFields : ~ Poisoned(Field(g))
        /\ df' = IF f \in alias THEN Poke(df, r, c) ELSE df
        /\ df_train' = after("df_train")
        /\ df_test' = after("df_test")
        /\ X_train' = after("X_train")
        /\ y_train' = after("y_train")
        /\ X_test' = after("X_test")
        /\ y_test' = after("y_test")
        /\ last' = Call("mutate", "ok")
        /\ ret' = None
        /\ UNCHANGED << file, traintime, testtime, targetColumns, modelVars, alias, calls >>

Next ==
    \/ CanCall /\ initDataframe
    \/ CanCall /\ \E tt \in TrainTimes, te \in Intervals : getTestTrainSplit(tt, te)
    \/ CanCall /\ \E tc \in TargetLists : getFeatureTargetSplit(tc)
    \/ CanCall /\ \E ml \in ModelLists : initModels(ml)

Spec == Init /\ [][Next]_vars

\* The split and the extraction with a caller that writes what it was handed.
NextOwnership ==
    \/ CanCall /\ initDataframe
    \/ CanCall /\ \E tt \in TrainTimes, te \in Intervals : getTestTrainSplit(tt, te)
    \/ CanCall /\ \E tc \in TargetLists : getFeatureTargetSplit(tc)
    \/ \E f \in SubsetFields, r \in 1..(MaxRows * MaxIntervals), c \in 1..Len(AllColumns) :
          Mutate(f, r, c)

SpecOwnership == Init /\ [][NextOwnership]_vars

\* Runs that repeat the split and the extraction: one training interval per
\* list, one model per list.
OneInterval == { s \in TrainTimes : Len(s) = 1 }
OneModel    == { s \in ModelLists : Len(s) = 1 }

NextRepeat ==
    \/ CanCallLong /\ initDataframe
    \/ CanCallLong /\ \E tt \in OneInterval, te \in Intervals : getTestTrainSplit(tt, te)
    \/ CanCallLong /\ \E tc \in TargetLists : getFeatureTargetSplit(tc)
    \/ CanCallLong /\ \E ml \in OneModel : initModels(ml)

SpecRepeat == Init /\ [][NextRepeat]_vars

\* Runs that go on to train and predict.
NextModels ==
    \/ CanCallModels /\ initDataframe
    \/ CanCallModels /\ \E tt \in OneInterval, te \in Intervals : getTestTrainSplit(tt, te)
    \/ CanCallModels /\ \E tc \in TargetLists : getFeatureTargetSplit(tc)
    \/ CanCallModels /\ \E ml \in OneModel : initModels(ml)
    \/ CanCallModels /\ \E retrain \in BOOLEAN : trainModels(retrain)
    \/ CanCallModels /\ \E plot \in BOOLEAN, interpol \in BOOLEAN : predictWithModels(plot, interpol)
SpecModels == Init /\ [][NextModels]_vars

\* prepareDataframe reads no field of the Api: it is checked from a fresh object.
NextPrepare ==
    /\ last.op = "__init__"
    /\ \E d \in Datasets, tt \in TrainTimes, te \in Intervals, tc \in TargetLists :
        prepareDataframe(d, tt, te, tc)

SpecPrepare == Init /\ [][NextPrepare]_vars

\* ======================================================= the claims
\* What the formulas read of a call that has just ended.
SplitDone   == last = Call("getTestTrainSplit", "ok")
ExtractDone == last = Call("getFeatureTargetSplit", "ok")

\* The positions of the parent's rows whose timestamp lies in [iv[1], iv[2]].
Matches(d, iv) == { p \in 1..Rows(d) : iv[1] <= d.index[p] /\ d.index[p] <= iv[2] }

\* The k-th smallest member of a set of positions.
Kth(S, k) == CHOOSE p \in S : Cardinality({ q \in S : q <= p }) = k

RECURSIVE MatchesBefore(_, _, _)
MatchesBefore(d, ivs, i) ==
    IF i <= 1 THEN 0
    ELSE Cardinality(Matches(d, ivs[i - 1])) + MatchesBefore(d, ivs, i - 1)

\* sub holds, from offset off on, the rows of d that match iv, in d's order.
BlockIs(sub, off, d, iv) ==
    \A k \in 1..Cardinality(Matches(d, iv)) :
        /\ off + k <= Rows(sub)
        /\ sub.index[off + k] = d.index[Kth(Matches(d, iv), k)]
        /\ sub.data[off + k] = d.data[Kth(Matches(d, iv), k)]

Occurrences(sub, d, p) ==
    Cardinality({ k \in 1..Rows(sub) : sub.data[k] = d.data[p] /\ sub.index[k] = d.index[p] })

\* C4: a successful split holds, per interval and in interval-list order, the
\* parent's rows whose timestamp lies within the inclusive bounds; each side
\* has as many rows as its intervals match, and a row covered by k training
\* intervals is k times in the training subset.
C4_SplitSelectsAndConcatenates ==
    SplitDone =>
        LET tt == traintime.val
            te == testtime.val
        IN  /\ df_train.columns = df.columns /\ df_test.columns = df.columns
            /\ Rows(df_train) = MatchesBefore(df, tt, Len(tt) + 1)
            /\ Len(df_train.data) = Rows(df_train)
            /\ \A i \in 1..Len(tt) : BlockIs(df_train, MatchesBefore(df, tt, i), df, tt[i])
            /\ \A p \in 1..Rows(df) :
                  Occurrences(df_train, df, p)
                    = Cardinality({ i \in 1..Len(tt) : p \in Matches(df, tt[i]) })
            /\ Rows(df_test) = Cardinality(Matches(df, te))
            /\ Len(df_test.data) = Rows(df_test)
            /\ BlockIs(df_test, 0, df, te)

\* A row that two training intervals cover is twice in the training subset.
C4_Witness ==
    /\ SplitDone
    /\ \E p \in 1..Rows(df) :
          /\ Cardinality({ i \in 1..Len(traintime.val) : p \in Matches(df, traintime.val[i]) }) = 2
          /\ Occurrences(df_train, df, p) = 2
    /\ Rows(df_train) > Rows(df)

\* The training intervals cover every row of d once and share no timestamp.
ExactCover(d, ivs) ==
    /\ \A p \in 1..Rows(d) : Cardinality({ i \in 1..Len(ivs) : p \in Matches(d, ivs[i]) }) = 1
    /\ \A i, j \in 1..Len(ivs) :
          i # j => ~ \E t \in Times : (ivs[i][1] <= t /\ t <= ivs[i][2])
                                      /\ (ivs[j][1] <= t /\ t <= ivs[j][2])

Ascending(ivs) == \A i \in 1..(Len(ivs) - 1) : ivs[i][2] < ivs[i + 1][1]

SameRows(sub, d) == sub.index = d.index /\ sub.data = d.data /\ sub.columns = d.columns

\* C5 as stated: for any interval set that exactly covers the dataset with no
\* overlap, the recombined selection matches the dataset row for row, in order.
C5_Original ==
    (SplitDone /\ ExactCover(df, traintime.val)) => SameRows(df_train, df)

\* C5 as amended: the same for an interval list that exactly covers the
\* dataset with no overlap and names its intervals in ascending time order.
C5_RowConservation ==
    (SplitDone /\ ExactCover(df, traintime.val) /\ Ascending(traintime.val))
        => SameRows(df_train, df)

\* Two intervals in ascending order, each contributing a row.
C5_Witness ==
    /\ SplitDone
    /\ Len(traintime.val) = 2
    /\ ExactCover(df, traintime.val) /\ Ascending(traintime.val)
    /\ Matches(df, traintime.val[1]) # {} /\ Matches(df, traintime.val[2]) # {}
    /\ SameRows(df_train, df)

BadInterval(iv) == iv[1] > iv[2]

\* C6: a split of a loaded dataset with an interval whose start is after its
\* end ends in ConfigurationError, handed to the caller as raised; with no such
\* interval it ends normally whatever the bounds, each interval contributing the
\* rows the dataset has within it, none when it matches none.
C6_MalformedIntervalRaises ==
    (last.op = "getTestTrainSplit" /\ df # None) =>
        LET tt  == traintime.val
            te  == testtime.val
            bad == BadInterval(te) \/ \E i \in 1..Len(tt) : BadInterval(tt[i])
        IN  /\ bad => (last.exc = "ConfigurationError" /\ ret = None)
            /\ ~ bad =>
                 /\ last.exc = "ok"
                 /\ Rows(df_train) = MatchesBefore(df, tt, Len(tt) + 1)
                 /\ Rows(df_test) = Cardinality(Matches(df, te))
                 /\ \A k \in 1..Rows(df_train) : \E p \in 1..Rows(df) : df_train.data[k] = df.data[p]
                 /\ \A k \in 1..Rows(df_test) : \E p \in 1..Rows(df) : df_test.data[k] = df.data[p]

\* A start after an end in the training list of a loaded dataset.
C6_Witness ==
    /\ last = Call("getTestTrainSplit", "ConfigurationError")
    /\ df # None
    /\ \E i \in 1..Len(traintime.val) : BadInterval(traintime.val[i])
    /\ ~ BadInterval(testtime.val)

ColumnSet(m) == { m.columns[j] : j \in 1..Len(m.columns) }

\* Where a column of m stands in the subset it was taken from.
Origin(sub, m, k) == CHOOSE j \in 1..Len(sub.columns) : sub.columns[j] = m.columns[k]

\* m holds, column by column, the cells of the subset's column of that name.
CellsFrom(sub, m) ==
    /\ Len(m.data) = Len(sub.data)
    /\ \A p \in 1..Len(m.data) :
          /\ Len(m.data[p]) = Len(m.columns)
          /\ \A k \in 1..Len(m.columns) : m.data[p][k] = sub.data[p][Origin(sub, m, k)]

PartitionOf(sub, X, y, tc) ==
    /\ ColumnSet(X) \cup ColumnSet(y) = ColumnSet(sub)
    /\ ColumnSet(X) \cap ColumnSet(y) = {}
    /\ y.columns = tc
    /\ \A a, b \in 1..Len(X.columns) : a < b => Origin(sub, X, a) < Origin(sub, X, b)
    /\ CellsFrom(sub, X)
    /\ CellsFrom(sub, y)

\* C2: after a successful extraction, on each side the columns of X and of y
\* partition the subset's columns: together all of them, none in both, y the
\* targets in the order given, X the others in their original order.
C2_FeatureTargetPartition ==
    ExtractDone =>
        /\ PartitionOf(df_train, X_train, y_train, targetColumns.val)
        /\ PartitionOf(df_test, X_test, y_test, targetColumns.val)

\* One target taken out of three columns, the two others kept in order, on a
\* training subset that has rows.
C2_Witness ==
    /\ ExtractDone
    /\ Rows(df_train) >= 1
    /\ targetColumns.val = << "w" >>
    /\ X_train.columns = << "v", "u" >>
    /\ y_train.columns = << "w" >>

ShapeOf(sub, X, y, tc) ==
    /\ Len(X.data) = Rows(sub)
    /\ Len(y.data) = Rows(sub)
    /\ Len(X.columns) = Len(sub.columns) - Len(tc)
    /\ Len(y.columns) = Len(tc)
    /\ \A p \in 1..Len(X.data) : Len(X.data[p]) = Len(sub.columns) - Len(tc)
    /\ \A p \in 1..Len(y.data) : Len(y.data[p]) = Len(tc)

\* C3: after a successful extraction, on each side X and y have the side's row
\* count, X has the subset's column count less the number of targets and y
\* has as many columns as there are targets.
C3_FeatureTargetShape ==
    ExtractDone =>
        /\ ShapeOf(df_train, X_train, y_train, targetColumns.val)
        /\ ShapeOf(df_test, X_test, y_test, targetColumns.val)

\* The only column is the target: X has rows and no column.
C3_Witness ==
    /\ ExtractDone
    /\ Len(df_train.columns) = 1
    /\ Rows(df_train) >= 1
    /\ Rows(df_train) # Rows(df_test)
    /\ Len(X_train.columns) = 0
    /\ Len(X_train.data) = Rows(df_train)

\* C7: an extraction from existing subsets with an empty target list, or with
\* a target name that is no column of the subset, ends in ConfigurationError
\* and returns no arrays.
C7_BadTargetRaises ==
    (last.op = "getFeatureTargetSplit" /\ df_train # None /\ df_test # None) =>
        LET tc == targetColumns.val
        IN  (Len(tc) = 0 \/ \E k \in 1..Len(tc) : tc[k] \notin ColumnSet(df_train))
                => (last.exc = "ConfigurationError" /\ ret = None)

\* A name that is no column, beside one that is.
C7_Witness ==
    /\ last = Call("getFeatureTargetSplit", "ConfigurationError")
    /\ df_train # None /\ df_test # None
    /\ targetColumns.val = << "v", "zz" >>

\* C1 as stated: after initModels succeeds, maxEnrolWindow is the largest
\* enrolWindow of the list, indexColumn has len(testSubset) - maxEnrolWindow
\* entries and is the test subset's index from offset maxEnrolWindow on.
C1_Original ==
    last = Call("initModels", "ok") =>
        LET w   == maxEnrolWindow.val
            idx == indexColumn.val
            ml  == modelList.val
        IN  /\ \E i \in 1..Len(ml) : ml[i].enrolWindow = w
            /\ \A i \in 1..Len(ml) : ml[i].enrolWindow <= w
            /\ Len(idx) = Rows(df_test) - w
            /\ \A k \in 1..Len(idx) : idx[k] = df_test.index[w + k]

\* C8 as stated: initModels on a test subset with fewer rows than
\* maxEnrolWindow ends in AlignmentError.
C8_Original ==
    (last.op = "initModels" /\ df_test # None /\ maxEnrolWindow.val > Rows(df_test))
        => last.exc = "AlignmentError"

\* C9 as stated: on every input the split and the extraction accept,
\* prepareDataframe returns what the split followed by the extraction returns.
C9_Original ==
    last.op = "prepareDataframe" =>
        LET a == last.args
            s == utilities_getTestTrainSplit(a[1], a[2], a[3])
            e == utilities_getFeatureTargetSplit(s.train, s.test, a[4])
        IN  (s.exc = "ok" /\ e.exc = "ok")
                => /\ last.exc = "ok"
                   /\ ret = << e.X_train, e.y_train, e.X_test, e.y_test >>

\* C10: whatever the caller writes into a subset or an array it was handed,
\* the dataframe the Api holds stays the one that was loaded.
C10_ParentUntouched ==
    df # None => (df = file /\ ~ Poisoned(df))

\* The caller has written into the training subset, or into its features.
C10_Witness ==
    /\ last = Call("mutate", "ok")
    /\ Poisoned(df_train) \/ Poisoned(X_train)
    /\ df = file

\* sub is the selection of d by the intervals ivs, in list order.
SelectionOf(sub, d, ivs) ==
    /\ sub.columns = d.columns
    /\ Len(sub.index) = MatchesBefore(d, ivs, Len(ivs) + 1)
    /\ Len(sub.data) = Len(sub.index)
    /\ \A i \in 1..Len(ivs) : BlockIs(sub, MatchesBefore(d, ivs, i), d, ivs[i])

ExtractionOf(sub, X, y, tc) == PartitionOf(sub, X, y, tc) /\ ShapeOf(sub, X, y, tc)

\* C11: a successful split leaves exactly its own result in traintime,
\* testtime, df_train and df_test, whatever they held before, and no other
\* call changes them; a successful extraction leaves exactly its own result
\* in targetColumns and the four arrays, and no other call changes them. So
\* the fields are always those of the most recent successful call.
C11_Step ==
    /\ last' = Call("getTestTrainSplit", "ok") =>
          /\ traintime' # None /\ testtime' # None
          /\ SelectionOf(df_train', df', traintime'.val)
          /\ SelectionOf(df_test', df', << testtime'.val >>)
          /\ ret' = << df_train', df_test' >>
    /\ last' = Call("getFeatureTargetSplit", "ok") =>
          /\ targetColumns' # None
          /\ ExtractionOf(df_train', X_train', y_train', targetColumns'.val)
          /\ ExtractionOf(df_test', X_test', y_test', targetColumns'.val)
          /\ ret' = << X_train', y_train', X_test', y_test' >>
    /\ last'.op # "getTestTrainSplit" => UNCHANGED splitVars
    /\ last'.op # "getFeatureTargetSplit" => UNCHANGED extractVars

C11_LatestCallWins == [][C11_Step]_vars

\* A split made after an extraction: the training subset is the new, shorter
\* selection, while the arrays show that an earlier one had more rows.
C11_Witness ==
    /\ SplitDone
    /\ X_train # None
    /\ Rows(df_train) < Len(X_train.data)
    /\ SelectionOf(df_train, df, traintime.val)

\* C12: a split changes traintime, testtime, df_train and df_test only: the
\* arrays, targetColumns, maxEnrolWindow, indexColumn and modelList are as
\* before it, so they describe the previous split until the extraction and
\* initModels are called again.
C12_Step ==
    last'.op = "getTestTrainSplit" =>
        /\ UNCHANGED << X_train, y_train, X_test, y_test, targetColumns >>
        /\ UNCHANGED << maxEnrolWindow, indexColumn, modelList >>

C12_SplitFrame == [][C12_Step]_vars

\* After a new split the test features have another row count than the test
\* subset, and indexColumn is not the test subset's index from
\* maxEnrolWindow on.
C12_Witness ==
    /\ SplitDone
    /\ X_test # None /\ Len(X_test.data) # Rows(df_test)
    /\ indexColumn # None
    /\ indexColumn.val # SubSeq(df_test.index, maxEnrolWindow.val + 1, Rows(df_test))

\* A target list the extraction refuses: empty, or naming a column the
\* subset does not have.
BadTargets(sub, tc) ==
    \/ Len(tc) = 0
    \/ \E k \in 1..Len(tc) : tc[k] \notin ColumnSet(sub)

\* C13: a split that raises has stored its intervals in traintime and
\* testtime all the same (with a dataframe loaded, the stored intervals are
\* the malformed ones that made it raise) and leaves df_train and df_test as
\* the last successful split set them; an extraction that raises has stored
\* its target list in targetColumns (with subsets present, the stored list
\* is the refused one) and leaves the four arrays as they were.
C13_Step ==
    /\ (last'.op = "getTestTrainSplit" /\ last'.exc # "ok") =>
          /\ traintime' # None /\ testtime' # None
          /\ df # None =>
                \/ \E i \in 1..Len(traintime'.val) : Malformed(traintime'.val[i])
                \/ Malformed(testtime'.val)
          /\ UNCHANGED << df_train, df_test >>
    /\ (last'.op = "getFeatureTargetSplit" /\ last'.exc # "ok") =>
          /\ targetColumns' # None
          /\ df_train # None => BadTargets(df_train, targetColumns'.val)
          /\ UNCHANGED << X_train, y_train, X_test, y_test >>

C13_PartialStateOnRaise == [][C13_Step]_vars

\* An extraction has just raised after a split raised: the malformed
\* intervals and the refused target list are stored, next to the subsets
\* and arrays of the earlier successful calls.
C13_Witness ==
    /\ last.op = "getFeatureTargetSplit" /\ last.exc # "ok"
    /\ df_train # None /\ X_train # None
    /\ BadTargets(df_train, targetColumns.val)
    /\ \/ \E i \in 1..Len(traintime.val) : Malformed(traintime.val[i])
       \/ Malformed(testtime.val)

\* w is the largest enrolment window of the models of ml.
IsMaxWindow(w, ml) ==
    /\ \E i \in 1..Len(ml) : ml[i].enrolWindow = w
    /\ \A i \in 1..Len(ml) : ml[i].enrolWindow <= w

\* C14: initModels succeeds only where a split has succeeded before it.
\* Called while df_test is None it raises, having set maxEnrolWindow to the
\* largest enrolment window of its list and leaving indexColumn and
\* modelList as they were, which is None as long as no split has succeeded;
\* a trainModels or predictWithModels that follows hands None to its helper
\* as the model list.
C14_Step ==
    /\ last'.op = "initModels" /\ last'.exc = "ok" => df_test # None /\ df_train # None
    /\ \A ml \in OneModel :
          (df_test = None /\ initModels(ml)) =>
              /\ last'.exc = "AttributeError"
              /\ maxEnrolWindow' # None
              /\ IsMaxWindow(maxEnrolWindow'.val, ml)
              /\ UNCHANGED << indexColumn, modelList >>
    /\ df_test' = None => indexColumn' = None /\ modelList' = None
    /\ last'.op \in { "trainModels", "predictWithModels" } =>
          /\ last'.args[1] = modelList
          /\ df_test = None => last'.args[1] = None

C14_InitModelsNeedsSplit == [][C14_Step]_vars

\* trainModels called after initModels failed on an object without a split:
\* maxEnrolWindow is set, and the helper was handed no model list.
C14_Witness ==
    /\ last.op = "trainModels"
    /\ last.args[1] = None
    /\ df_test = None
    /\ maxEnrolWindow # None
    /\ indexColumn = None /\ modelList = None

====
